---- MODULE Spec2Model ----
(***************************************************************************)
(* Karachi AQI forecast system: the AQI engine (src/aqi_engine) and the    *)
(* 72-hour forecast (src/forecasting/forecast_3days.py, src/app.py).       *)
(*                                                                         *)
(* The AQI engine computes on Python floats (IEEE-754 binary64).  The      *)
(* arithmetic is modelled bit-exactly: a float is a sign, a 53-bit         *)
(* mantissa and a binary exponent, and every operation rounds its exact    *)
(* result to nearest, ties to even, as the hardware does.                  *)
(***************************************************************************)
EXTENDS Integers, Sequences, FiniteSets, TLC

(***************************************************************************)
(* Natural numbers of any size: little-endian sequences of limbs below     *)
(* Base, without a most significant zero limb (zero is the empty           *)
(* sequence).  They carry the mantissas and the exact intermediate results.*)
(***************************************************************************)
Base == 2^15

RECURSIVE BitLen(_)
BitLen(n) == IF n = 0 THEN 0 ELSE 1 + BitLen(n \div 2)

LimbBits == BitLen(Base - 1)

RECURSIVE BTrim(_)
BTrim(x) ==
  IF x = <<>> THEN x
  ELSE IF x[Len(x)] = 0 THEN BTrim(SubSeq(x, 1, Len(x) - 1)) ELSE x

RECURSIVE BFromInt(_)
BFromInt(n) == IF n = 0 THEN <<>> ELSE <<n % Base>> \o BFromInt(n \div Base)

RECURSIVE BToInt(_)
BToInt(x) == IF x = <<>> THEN 0 ELSE Head(x) + Base * BToInt(Tail(x))

RECURSIVE BAddC(_, _, _)
BAddC(x, y, c) ==
  IF x = <<>> /\ y = <<>> THEN (IF c = 0 THEN <<>> ELSE <<c>>)
  ELSE LET a == IF x = <<>> THEN 0 ELSE Head(x)
           b == IF y = <<>> THEN 0 ELSE Head(y)
           s == a + b + c
       IN  <<s % Base>> \o BAddC(IF x = <<>> THEN x ELSE Tail(x),
                                 IF y = <<>> THEN y ELSE Tail(y),
                                 s \div Base)

BAdd(x, y) == BAddC(x, y, 0)

RECURSIVE BSubB(_, _, _)
BSubB(x, y, b) ==
  IF x = <<>> THEN <<>>
  ELSE LET d == Head(x) - (IF y = <<>> THEN 0 ELSE Head(y)) - b
       IN  <<IF d < 0 THEN d + Base ELSE d>>
             \o BSubB(Tail(x), IF y = <<>> THEN y ELSE Tail(y),
                      IF d < 0 THEN 1 ELSE 0)

\* x - y for x >= y
BSub(x, y) == BTrim(BSubB(x, y, 0))

RECURSIVE BCmpAt(_, _, _)
BCmpAt(x, y, i) ==
  IF i = 0 THEN 0
  ELSE IF x[i] < y[i] THEN -1
  ELSE IF x[i] > y[i] THEN 1
  ELSE BCmpAt(x, y, i - 1)

\* -1, 0, 1 as x < y, x = y, x > y
BCmp(x, y) ==
  IF Len(x) < Len(y) THEN -1
  ELSE IF Len(x) > Len(y) THEN 1
  ELSE BCmpAt(x, y, Len(x))

RECURSIVE BMulSmall(_, _, _)
BMulSmall(x, k, c) ==
  IF x = <<>> THEN (IF c = 0 THEN <<>> ELSE <<c>>)
  ELSE LET p == Head(x) * k + c
       IN  <<p % Base>> \o BMulSmall(Tail(x), k, p \div Base)

RECURSIVE BMul(_, _)
BMul(x, y) ==
  IF x = <<>> \/ y = <<>> THEN <<>>
  ELSE LET r == BMul(x, Tail(y))
       IN  BAdd(BTrim(BMulSmall(x, Head(y), 0)),
                IF r = <<>> THEN r ELSE <<0>> \o r)

\* x * 2^k
BShl(x, k) ==
  IF x = <<>> THEN x
  ELSE [i \in 1..(k \div LimbBits) |-> 0] \o BMulSmall(x, 2^(k % LimbBits), 0)

\* floor(x / 2^k)
BShr(x, k) ==
  LET d == k \div LimbBits
      s == k % LimbBits
      n == Len(x) - d
  IN  IF n <= 0 THEN <<>>
      ELSE BTrim([i \in 1..n |->
                   (x[i + d] \div 2^s)
                   + (IF i + d < Len(x)
                        THEN (x[i + d + 1] % 2^s) * 2^(LimbBits - s)
                        ELSE 0)])

BBitLen(x) ==
  IF x = <<>> THEN 0 ELSE LimbBits * (Len(x) - 1) + BitLen(x[Len(x)])

\* bit i of x (bit 0 is the least significant)
BBit(x, i) ==
  LET j == i \div LimbBits + 1
  IN  IF j > Len(x) THEN 0 ELSE (x[j] \div 2^(i % LimbBits)) % 2

\* x mod 2^k is not zero
BLowNonZero(x, k) ==
  LET d == k \div LimbBits
  IN  \/ \E j \in 1..Len(x) : j <= d /\ x[j] # 0
      \/ d + 1 <= Len(x) /\ x[d + 1] % 2^(k % LimbBits) # 0

RECURSIVE BPow(_, _)
BPow(x, t) == IF t = 0 THEN <<1>> ELSE BMul(x, BPow(x, t - 1))

(***************************************************************************)
(* Python floats.  A float is [neg, m, e] with value (-1)^neg * m * 2^e;   *)
(* m has exactly MantBits bits, or is zero (then e = 0, neg = FALSE).      *)
(* The model's values stay far from the subnormal and overflow ranges.     *)
(***************************************************************************)
MantBits == 53

FZero == [neg |-> FALSE, m |-> <<>>, e |-> 0]

\* q + 1 or q, for q = floor(N / 2^k) and k > 0: N / 2^k rounded to the nearest
\* integer, ties to even
BRoundQuotient(N, k, q) ==
  IF BBit(N, k - 1) = 1 /\ (BLowNonZero(N, k - 1) \/ BBit(q, 0) = 1)
    THEN BAdd(q, <<1>>)
    ELSE q

BRoundShr(N, k) == BRoundQuotient(N, k, BShr(N, k))

\* The float m * 2^E for a mantissa of MantBits bits, or of one bit more
\* after a carry out of the rounding
FCarry(neg, m, E) ==
  IF BBitLen(m) > MantBits
    THEN [neg |-> neg, m |-> BShr(m, 1), e |-> E + 1]
    ELSE [neg |-> neg, m |-> m, e |-> E]

\* The float nearest to N * 2^E for N of MantBits + k bits
FRoundAt(neg, N, E, k) ==
  IF N = <<>> THEN FZero
  ELSE IF k <= 0 THEN [neg |-> neg, m |-> BShl(N, -k), e |-> E + k]
  ELSE FCarry(neg, BRoundShr(N, k), E + k)

\* The float nearest to N * 2^E (ties to even), with the sign neg
FRoundTo(neg, N, E) == FRoundAt(neg, N, E, BBitLen(N) - MantBits)

\* int -> float
FromInt(n) == FRoundTo(n < 0, BFromInt(IF n < 0 THEN -n ELSE n), 0)

FNeg(a) == IF a.m = <<>> THEN a ELSE [a EXCEPT !.neg = ~a.neg]

\* -1, 0, 1 as |a| < |b|, |a| = |b|, |a| > |b|
FCmpMag(a, b) ==
  IF a.m = <<>> /\ b.m = <<>> THEN 0
  ELSE IF a.m = <<>> THEN -1
  ELSE IF b.m = <<>> THEN 1
  ELSE IF a.e < b.e THEN -1
  ELSE IF a.e > b.e THEN 1
  ELSE BCmp(a.m, b.m)

\* -1, 0, 1 as a < b, a = b, a > b
FCmp(a, b) ==
  IF a.neg /\ ~b.neg THEN -1
  ELSE IF ~a.neg /\ b.neg THEN 1
  ELSE IF a.neg THEN FCmpMag(b, a)
  ELSE FCmpMag(a, b)

FLe(a, b) == FCmp(a, b) <= 0

FLt(a, b) == FCmp(a, b) < 0

\* Beyond this exponent distance the smaller operand only decides the rounding
FarApart == MantBits + 7

\* |hi| + |lo| or |hi| - |lo|, for |hi| >= |lo| > 0, with the sign neg
FAddMag(neg, hi, lo, subtract) ==
  LET d  == hi.e - lo.e
      H  == IF d > FarApart THEN BShl(hi.m, 2) ELSE BShl(hi.m, d)
      Lo == IF d > FarApart THEN <<1>> ELSE lo.m
      E  == IF d > FarApart THEN hi.e - 2 ELSE lo.e
  IN  FRoundTo(neg, IF subtract THEN BSub(H, Lo) ELSE BAdd(H, Lo), E)

\* a + b for a, b # 0, c comparing |a| with |b|
FAddOrdered(a, b, c) ==
  IF c = 0 /\ a.neg # b.neg THEN FZero
  ELSE FAddMag(IF c >= 0 THEN a.neg ELSE b.neg,
               IF c >= 0 THEN a ELSE b,
               IF c >= 0 THEN b ELSE a,
               a.neg # b.neg)

\* a + b
FAdd(a, b) ==
  IF a.m = <<>> THEN b
  ELSE IF b.m = <<>> THEN a
  ELSE FAddOrdered(a, b, FCmpMag(a, b))

\* a - b
FSub(a, b) == FAdd(a, FNeg(b))

\* a * b
FMul(a, b) ==
  IF a.m = <<>> \/ b.m = <<>> THEN FZero
  ELSE FRoundTo(a.neg # b.neg, BMul(a.m, b.m), a.e + b.e)

\* Long division of r by d for r < 2 * d: n more bits of the quotient, most
\* significant first. The result is <<the bits as an int, the remainder left>>
RECURSIVE BDivLimb(_, _, _, _)
BDivLimb(r, d, q, n) ==
  IF n = 0 THEN <<q, r>>
  ELSE IF BCmp(r, d) >= 0
    THEN BDivLimb(BMulSmall(BSub(r, d), 2, 0), d, 2 * q + 1, n - 1)
    ELSE BDivLimb(BMulSmall(r, 2, 0), d, 2 * q, n - 1)

\* k limbs of quotient bits of r / d: <<the limbs, the remainder left>>
RECURSIVE BDivLimbs(_, _, _)
BDivCons(q, rest) == <<rest[1] \o <<q>>, rest[2]>>

BDivNext(s, d, k) == BDivCons(s[1], BDivLimbs(s[2], d, k - 1))

BDivLimbs(r, d, k) ==
  IF k = 0 THEN <<<<>>, r>> ELSE BDivNext(BDivLimb(r, d, 0, LimbBits), d, k)

\* The quotient's bits with a sticky bit below them, rounded
FDivRound(neg, qr, E) ==
  FRoundTo(neg,
           BAddC(BMulSmall(BTrim(qr[1]), 2, 0), <<>>,
                 IF qr[2] # <<>> THEN 1 ELSE 0),
           E)

\* a / b for b # 0
FDiv(a, b) ==
  IF a.m = <<>> THEN FZero
  ELSE FDivRound(a.neg # b.neg, BDivLimbs(a.m, b.m, 4),
                 a.e - b.e - 4 * LimbBits)

\* a ** t for an int t >= 0
FPow(a, t) ==
  IF t = 0 THEN FromInt(1)
  ELSE IF a.m = <<>> THEN FZero
  ELSE FRoundTo(a.neg /\ t % 2 = 1, BPow(a.m, t), a.e * t)

\* round(|a|) for a # 0 with the exponent -k
FRoundMag(m, k) ==
  IF k <= 0 THEN BToInt(BShl(m, -k))
  ELSE IF k > MantBits + 1 THEN 0
  ELSE BToInt(BRoundShr(m, k))

\* round(a): the nearest int, ties to even
FRoundInt(a) ==
  IF a.m = <<>> THEN 0
  ELSE IF a.neg THEN -FRoundMag(a.m, -a.e)
  ELSE FRoundMag(a.m, -a.e)

\* The float of the decimal literal n / d (d a power of ten)
Dec(n, d) == FDiv(FromInt(n), FromInt(d))

(***************************************************************************)
(* src/aqi_engine/standard_aqi.py                                          *)
(***************************************************************************)
\* What a call gives back: an int, None, a dict of two ints, or an exception
Return(v) == [tag |-> "return", value |-> v, exc |-> ""]

ReturnNone == [tag |-> "None", value |-> 0, exc |-> ""]

Raise(e) == [tag |-> "raise", value |-> 0, exc |-> e]

\* The keys of the breakpoints dict
Pollutants == {"pm25", "pm10", "o3"}

\* The decimal places of the table's literals, as a denominator: 12.1 is
\* 121 / 10, 54 is 54 / 1, 0.054 is 54 / 1000
Denominator == [pm25 |-> 10, pm10 |-> 1, o3 |-> 1000]

\* The table's literals (bplo, bphi, ilo, ihi), bplo and bphi as numerators
\* over Denominator
BreakpointLiterals ==
  [pm25 |-> << <<0, 120, 0, 50>>, <<121, 354, 51, 100>>,
               <<355, 554, 101, 150>>, <<555, 1504, 151, 200>>,
               <<1505, 2504, 201, 300>>, <<2505, 5004, 301, 500>> >>,
   pm10 |-> << <<0, 54, 0, 50>>, <<55, 154, 51, 100>>,
               <<155, 254, 101, 150>>, <<255, 354, 151, 200>>,
               <<355, 424, 201, 300>>, <<425, 604, 301, 500>> >>,
   o3   |-> << <<0, 54, 0, 50>>, <<55, 70, 51, 100>>,
               <<71, 85, 101, 150>>, <<86, 105, 151, 200>>,
               <<106, 200, 201, 300>> >>]

\* The rows of one pollutant as Python reads them: bplo and bphi as floats
RECURSIVE FloatRows(_, _)
FloatRows(rows, denominator) ==
  IF rows = <<>> THEN <<>>
  ELSE << <<Dec(Head(rows)[1], denominator), Dec(Head(rows)[2], denominator),
            Head(rows)[3], Head(rows)[4]>> >>
       \o FloatRows(Tail(rows), denominator)

\* The breakpoints dict
breakpoints ==
  [pm25 |-> FloatRows(BreakpointLiterals.pm25, Denominator.pm25),
   pm10 |-> FloatRows(BreakpointLiterals.pm10, Denominator.pm10),
   o3   |-> FloatRows(BreakpointLiterals.o3, Denominator.o3)]

\* bplo <= concentration <= bphi for the row (bplo, bphi, ilo, ihi)
InRange(row, concentration) ==
  FLe(row[1], concentration) /\ FLe(concentration, row[2])

\* The interpolation of the row, rounded
Interpolate(row, concentration) ==
  FRoundInt(FAdd(FMul(FDiv(FromInt(row[4] - row[3]), FSub(row[2], row[1])),
                      FSub(concentration, row[1])),
                 FromInt(row[3])))

RECURSIVE LookupFrom(_, _, _)
\* LookupFrom with the upper edge of a row left out of its range
LookupFromStrictUpper(rows, i, concentration) ==
  IF i > Len(rows) THEN 500
  ELSE IF FLe(rows[i][1], concentration) /\ FLt(concentration, rows[i][2])
    THEN Interpolate(rows[i], concentration)
    ELSE LookupFrom(rows, i + 1, concentration)

\* LookupFrom giving the last row's ihi, not 500, past the last row
LookupFromLastIndex(rows, i, concentration) ==
  IF i > Len(rows) THEN rows[Len(rows)][4]
  ELSE IF InRange(rows[i], concentration)
    THEN Interpolate(rows[i], concentration)
    ELSE LookupFrom(rows, i + 1, concentration)

\* LookupFrom interpolating on the concentration, not on its distance to bplo
LookupFromNoOffset(rows, i, concentration) ==
  IF i > Len(rows) THEN 500
  ELSE IF InRange(rows[i], concentration)
    THEN FRoundInt(FAdd(FMul(FDiv(FromInt(rows[i][4] - rows[i][3]),
                                  FSub(rows[i][2], rows[i][1])),
                             concentration),
                        FromInt(rows[i][3])))
    ELSE LookupFrom(rows, i + 1, concentration)

\* LookupFrom giving 0, not 500, for a concentration below zero
LookupFromZeroBelowTable(rows, i, concentration) ==
  IF i > Len(rows) THEN (IF FLt(concentration, FZero) THEN 0 ELSE 500)
  ELSE IF InRange(rows[i], concentration)
    THEN Interpolate(rows[i], concentration)
    ELSE LookupFrom(rows, i + 1, concentration)

\* The for loop over the rows from row i on: the first row whose range holds
\* the concentration decides; 500 when none does
LookupFrom(rows, i, concentration) ==
  IF i > Len(rows) THEN 500
  ELSE IF InRange(rows[i], concentration)
    THEN Interpolate(rows[i], concentration)
    ELSE LookupFrom(rows, i + 1, concentration)

\* calculate_standard_aqi falling back to the pm25 table for an unknown pollutant
calculate_standard_aqi_default_table(concentration, pollutant) ==
  Return(LookupFrom(breakpoints[IF pollutant \in Pollutants THEN pollutant
                                ELSE "pm25"], 1, concentration))

\* calculate_standard_aqi(concentration, pollutant), concentration a float
calculate_standard_aqi(concentration, pollutant) ==
  IF pollutant \notin Pollutants THEN Raise("ValueError")
  ELSE Return(LookupFrom(breakpoints[pollutant], 1, concentration))

(***************************************************************************)
(* src/aqi_engine/nowcast_aqi.py                                           *)
(***************************************************************************)
One == FromInt(1)

Half == Dec(5, 10)

\* min(xs) and max(xs) of a non-empty list of floats
RECURSIVE FMin(_)
FMin(xs) ==
  IF Len(xs) = 1 THEN xs[1]
  ELSE LET m == FMin(Tail(xs)) IN IF FLe(xs[1], m) THEN xs[1] ELSE m

RECURSIVE FMax(_)
FMax(xs) ==
  IF Len(xs) = 1 THEN xs[1]
  ELSE LET m == FMax(Tail(xs)) IN IF FLe(m, xs[1]) THEN xs[1] ELSE m

\* sum(xs): the items added one by one, from the int 0
RECURSIVE PySumFrom(_, _)
PySumFrom(acc, xs) ==
  IF xs = <<>> THEN acc ELSE PySumFrom(FAdd(acc, Head(xs)), Tail(xs))

PySum(xs) == PySumFrom(FZero, xs)

\* reversed(xs)
Reversed(xs) == [i \in 1..Len(xs) |-> xs[Len(xs) + 1 - i]]

\* min(a, b) and max(a, b) of two floats: a unless b is beyond it
PyMin(a, b) == IF FLt(b, a) THEN b ELSE a

PyMax(a, b) == IF FLt(a, b) THEN b ELSE a

\* The weight factor w of a window with the extremes c_min and c_max
WeightOf(c_min, c_max) ==
  IF FLt(FZero, c_max)
    THEN PyMax(Half, PyMin(One, FSub(One, FDiv(FSub(c_max, c_min), c_max))))
    ELSE One

\* The weight factor w of a non-empty window
NowcastWeight(pm_last_12h) == WeightOf(FMin(pm_last_12h), FMax(pm_last_12h))

\* The weighted average of the reversed window rev
WeightedAverage(rev, w) ==
  FDiv(PySum([i \in 1..Len(rev) |-> FMul(FPow(w, i - 1), rev[i])]),
       PySum([i \in 1..Len(rev) |-> FPow(w, i - 1)]))

\* NowcastConcentration weighting the window from its oldest value on
NowcastConcentrationOldestFirst(pm_last_12h, w) ==
  WeightedAverage(pm_last_12h, w)

\* The NowCast concentration of a non-empty window under the weight w
NowcastConcentration(pm_last_12h, w) ==
  WeightedAverage(Reversed(pm_last_12h), w)

\* The locals of calculate_nowcast on a non-empty window, and its result
NowcastOf(w, nowcast_concentration, pollutant) ==
  [w |-> <<w>>, nowcast_concentration |-> <<nowcast_concentration>>,
   result |-> calculate_standard_aqi(nowcast_concentration, pollutant)]

NowcastWith(pm_last_12h, w, pollutant) ==
  NowcastOf(w, NowcastConcentration(pm_last_12h, w), pollutant)

\* calculate_nowcast with its locals; an empty window sets none
NowcastRun(pm_last_12h, pollutant) ==
  IF Len(pm_last_12h) = 0
    THEN [w |-> <<>>, nowcast_concentration |-> <<>>, result |-> ReturnNone]
    ELSE NowcastWith(pm_last_12h, NowcastWeight(pm_last_12h), pollutant)

\* calculate_nowcast(pm_last_12h, pollutant), the window a list of floats
calculate_nowcast(pm_last_12h, pollutant) ==
  NowcastRun(pm_last_12h, pollutant).result

(***************************************************************************)
(* src/aqi_engine/compare.py                                               *)
(***************************************************************************)
\* The dict compare_aqi returns
ReturnDict(standard, nowcast) ==
  [tag |-> "return", standard_aqi |-> standard, nowcast_aqi |-> nowcast]

\* The return statement, after standard is computed
CompareReturn(standard, pm_last_12h, pollutant) ==
  IF standard.tag = "raise" THEN standard
  ELSE ReturnDict(standard, calculate_nowcast(pm_last_12h, pollutant))

\* sum(pm_last_12h) / len(pm_last_12h)
DefaultAverage(pm_last_12h) ==
  FDiv(PySum(pm_last_12h), FromInt(Len(pm_last_12h)))

\* compare_aqi taking the latest value of the window for the default average
compare_aqi_latest(pm_last_12h, pm_24h_avg, pollutant) ==
  IF pm_24h_avg = <<>> /\ Len(pm_last_12h) = 0 THEN Raise("IndexError")
  ELSE CompareReturn(
         calculate_standard_aqi(
           IF pm_24h_avg = <<>> THEN pm_last_12h[Len(pm_last_12h)]
           ELSE pm_24h_avg[1],
           pollutant),
         pm_last_12h, pollutant)

\* compare_aqi(pm_last_12h, pm_24h_avg, pollutant); pm_24h_avg is <<>> for
\* None (the default) and <<a>> for the float a
compare_aqi(pm_last_12h, pm_24h_avg, pollutant) ==
  IF pm_24h_avg = <<>> /\ Len(pm_last_12h) = 0 THEN Raise("ZeroDivisionError")
  ELSE CompareReturn(
         calculate_standard_aqi(
           IF pm_24h_avg = <<>> THEN DefaultAverage(pm_last_12h)
           ELSE pm_24h_avg[1],
           pollutant),
         pm_last_12h, pollutant)

(***************************************************************************)
(* src/data_pipeline/clean_transform.py: the rows of the feature store.    *)
(* A timestamp is a count of whole hours from Monday 2024-01-01 00:00; a   *)
(* row is a function from its column names to its values, pollutant values *)
(* in whole micrograms per cubic metre.                                    *)
(***************************************************************************)
MonthDays == <<31, 29, 31, 30, 31, 30, 31, 31, 30, 31, 30, 31>>

\* <<month, day of the month>> of the day d days after the first of month m
RECURSIVE MonthFrom(_, _)
MonthFrom(m, d) ==
  IF d < MonthDays[m] THEN <<m, d + 1>>
  ELSE MonthFrom(m + 1, d - MonthDays[m])

\* timestamp.hour, .day, .month and .dayofweek (Monday is 0)
Hour(timestamp) == timestamp % 24

Day(timestamp) == MonthFrom(1, timestamp \div 24)[2]

Month(timestamp) == MonthFrom(1, timestamp \div 24)[1]

DayOfWeek(timestamp) == (timestamp \div 24) % 7

\* The row with the columns of updates set to their values there
SetCols(row, updates) ==
  [c \in DOMAIN row \cup DOMAIN updates |->
    IF c \in DOMAIN updates THEN updates[c] ELSE row[c]]

\* The row without the columns
Drop(row, columns) == [c \in DOMAIN row \ columns |-> row[c]]

\* The time-based and human-activity columns transform_features derives
TimeFeatures(timestamp) ==
  [hour         |-> Hour(timestamp),
   day          |-> Day(timestamp),
   month        |-> Month(timestamp),
   day_of_week  |-> DayOfWeek(timestamp),
   is_rush_hour |-> IF Hour(timestamp) \in {7, 8, 9, 17, 18, 19} THEN 1 ELSE 0,
   is_weekend   |-> IF DayOfWeek(timestamp) \in {5, 6} THEN 1 ELSE 0]

\* The lag columns each kind of store holds: all of them (what
\* transform_features writes), only the 1h lag, or none
LagColumns ==
  [all     |-> {"pm25_lag_1h", "pm25_lag_3h", "pm25_lag_6h"},
   lag_1h  |-> {"pm25_lag_1h"},
   no_lags |-> {}]

\* The pollutant, lag, rolling and target columns of the row of an hour
Measurements(timestamp) ==
  [pm25             |-> 30 + (timestamp % 7),
   pm10             |-> 80,
   pm25_change      |-> 2,
   pm25_lag_1h      |-> 10,
   pm25_lag_3h      |-> 20,
   pm25_lag_6h      |-> 30,
   pm10_lag_1h      |-> 70,
   pm25_rolling_3h  |-> 25,
   pm10_rolling_3h  |-> 75,
   post_rain_effect |-> 0,
   pm25_next_hour   |-> 30 + ((timestamp + 1) % 7)]

\* The row transform_features makes for an hour, in a store of the schema
FeatureRow(timestamp, schema) ==
  Drop(SetCols(SetCols(Measurements(timestamp), TimeFeatures(timestamp)),
               [timestamp |-> timestamp]),
       LagColumns.all \ LagColumns[schema])

(***************************************************************************)
(* src/forecasting/forecast_3days.py                                       *)
(***************************************************************************)
HOURS_AHEAD == 72

\* df.sort_values("timestamp"); the timestamps of a store differ
sort_values(df) ==
  [i \in 1..Len(df) |->
    df[CHOOSE j \in 1..Len(df) :
         Cardinality({k \in 1..Len(df) : df[k].timestamp < df[j].timestamp})
           = i - 1]]

\* The columns the loop keeps from the model
NotFeatures == {"timestamp", "location", "pm25_next_hour"}

\* The columns the model was fitted on: those of the store's rows
FittedColumns(schema) == DOMAIN FeatureRow(0, schema) \ NotFeatures

\* model.predict(X)[0] at a step. The model is a regressor fitted on the
\* store: "constant" predicts 5, "trend" one less than the row's pm25. It
\* raises at step fail_at, and on a row whose columns are not the fitted ones
predict(model, X, step) ==
  IF step = model.fail_at THEN Raise("PredictError")
  ELSE IF DOMAIN X # FittedColumns(model.schema) THEN Raise("ValueError")
  ELSE IF model.kind = "constant" THEN Return(5)
  ELSE Return(X.pm25 - 1)

\* current.get(column, default)
Get(current, column, default) ==
  IF column \in DOMAIN current THEN current[column] ELSE default

\* current["pm25_lag_6h"] = current.get("pm25_lag_3h", pred_pm25)
AssignLag6h(current, pred_pm25) ==
  SetCols(current, [pm25_lag_6h |-> Get(current, "pm25_lag_3h", pred_pm25)])

\* current["pm25_lag_3h"] = current.get("pm25_lag_1h", pred_pm25)
AssignLag3h(current, pred_pm25) ==
  SetCols(current, [pm25_lag_3h |-> Get(current, "pm25_lag_1h", pred_pm25)])

\* UpdateLags assigning the 3h lag before the 6h lag
UpdateLagsLag3hFirst(current, pred_pm25) ==
  SetCols(IF "pm25_lag_1h" \in DOMAIN current
            THEN AssignLag6h(AssignLag3h(current, pred_pm25), pred_pm25)
            ELSE current,
          [pm25_lag_1h |-> pred_pm25])

\* The lag update: the 6h and 3h lags shift only when the row has a 1h lag
UpdateLags(current, pred_pm25) ==
  SetCols(IF "pm25_lag_1h" \in DOMAIN current
            THEN AssignLag3h(AssignLag6h(current, pred_pm25), pred_pm25)
            ELSE current,
          [pm25_lag_1h |-> pred_pm25])

\* StepTimeFeatures counting Sunday alone as the weekend
StepTimeFeaturesSundayOnly(next_time) ==
  [timestamp    |-> next_time,
   hour         |-> Hour(next_time),
   day          |-> Day(next_time),
   month        |-> Month(next_time),
   day_of_week  |-> DayOfWeek(next_time),
   is_weekend   |-> IF DayOfWeek(next_time) > 5 THEN 1 ELSE 0,
   is_rush_hour |-> IF Hour(next_time) \in {7, 8, 9, 17, 18, 19} THEN 1 ELSE 0]

\* The time columns of the loop at next_time
StepTimeFeatures(next_time) ==
  [timestamp    |-> next_time,
   hour         |-> Hour(next_time),
   day          |-> Day(next_time),
   month        |-> Month(next_time),
   day_of_week  |-> DayOfWeek(next_time),
   is_weekend   |-> IF DayOfWeek(next_time) >= 5 THEN 1 ELSE 0,
   is_rush_hour |-> IF Hour(next_time) \in {7, 8, 9, 17, 18, 19} THEN 1 ELSE 0]

\* Advance leaving pm25 at its observed value
AdvanceKeepsObserved(current, pred_pm25) ==
  SetCols(UpdateLags(current, pred_pm25),
          StepTimeFeatures(current.timestamp + 1))

\* Advance moving the 3h rolling mean of pm25 to the prediction as well
AdvanceRecomputesRolling(current, pred_pm25) ==
  SetCols(SetCols(UpdateLags(current, pred_pm25),
                  [pm25 |-> pred_pm25, pm25_rolling_3h |-> pred_pm25]),
          StepTimeFeatures(current.timestamp + 1))

\* The row after a step that predicted pred_pm25
Advance(current, pred_pm25) ==
  SetCols(SetCols(UpdateLags(current, pred_pm25), [pm25 |-> pred_pm25]),
          StepTimeFeatures(current.timestamp + 1))

(***************************************************************************)
(* src/app.py: the forecast frame                                          *)
(***************************************************************************)
\* The aqi column: calculate_standard_aqi(x, "pm25") of a prediction x, for
\* every x a model of this module can predict
PredictionAqi ==
  [x \in (30 - HOURS_AHEAD)..36 |->
    calculate_standard_aqi(FromInt(x), "pm25").value]

\* forecast_df: forecast_times beside the predictions and their aqi
ForecastFrame(latest_row, predictions) ==
  [i \in 1..Len(predictions) |->
    [timestamp |-> latest_row.timestamp + i,
     pm25      |-> predictions[i],
     aqi       |-> PredictionAqi[predictions[i]]]]

(***************************************************************************)
(* The state.  A caller of the AQI engine picks a function and its         *)
(* arguments, and the call returns or raises; concentrations are decimals, *)
(* held as numerators over Resolution[pollutant], ten times finer than the *)
(* table's literals.  The dashboard (src/app.py) is a script that loads    *)
(* the features, runs the forecast and builds the forecast frame, while    *)
(* the hourly pipeline writes to the feature store.                        *)
(***************************************************************************)
VARIABLES
  fn,                    \* the function called
  pollutant,             \* its pollutant argument
  concentration,         \* calculate_standard_aqi's concentration
  pm_last_12h,           \* the window of calculate_nowcast and compare_aqi
  pm_24h_avg,            \* compare_aqi's average: <<>> is None, <<n>> a value
  pc,                    \* "call" before the call, "done" after it
  w,                     \* calculate_nowcast's local w, <<>> when not set
  nowcast_concentration, \* its local nowcast_concentration, <<>> when not set
  result,                \* what the call gave back
  store,                 \* the feature store's rows, in insertion order
  model,                 \* the fitted model: [kind, schema, fail_at]
  cache,                 \* st.cache_data of load_features: <<>> or <<value>>
  runs,                  \* the runs of the dashboard script so far
  dpc,                   \* where the dashboard script is
  features_df,           \* app.py's features_df; <<>> is None
  latest_row,            \* app.py's latest_row
  seed,                  \* the row load_latest_features returned
  current,               \* forecast_3_days' current
  step,                  \* its loop variable
  X,                     \* the row it last gave to model.predict
  predictions,           \* its predictions
  reads,                 \* the reads of the store by the running forecast
  error,                 \* the exception that ended the script, "" if none
  forecast_df            \* app.py's forecast_df

aqiVars == <<fn, pollutant, concentration, pm_last_12h, pm_24h_avg, pc, w,
             nowcast_concentration, result>>

forecastVars == <<store, model, cache, runs, dpc, features_df, latest_row,
                  seed, current, step, X, predictions, reads, error,
                  forecast_df>>

vars == <<aqiVars, forecastVars>>

\* Pollutant types the docstring names and the table lacks
Unsupported == {"no2", "co", "so2"}

Resolution ==
  [p \in Pollutants \cup Unsupported |->
    IF p \in Pollutants THEN 10 * Denominator[p] ELSE 10]

\* The float of the numerator n of a concentration of pollutant p
Float(n, p) == Dec(n, Resolution[p])

Floats(ns, p) == [i \in 1..Len(ns) |-> Float(ns[i], p)]

\* How far around each table edge the concentrations reach, in steps of half
\* the table's granularity
EdgeRadius == 2

\* The longest window
MaxWindow == 3

\* The edges bplo and bphi of the table, as numerators over Resolution
Edges(p) ==
  UNION {{10 * BreakpointLiterals[p][i][1], 10 * BreakpointLiterals[p][i][2]} :
           i \in 1..Len(BreakpointLiterals[p])}

TopEdge(p) == 10 * BreakpointLiterals[p][Len(BreakpointLiterals[p])][2]

\* Concentrations at and around every edge (so also inside every gap between
\* two rows and above the last row), and 1000
Concentrations(p) ==
  IF p \in Pollutants
    THEN {c \in {e + 5 * j : e \in Edges(p), j \in -EdgeRadius..EdgeRadius} :
            c >= 0}
         \cup {1000 * Resolution[p]}
    ELSE {0, 1000 * Resolution[p]}

\* Concentrations below zero, which a regressor's prediction can be
Negatives(p) ==
  {-(5 * j) : j \in 1..EdgeRadius} \cup {-1, -(1000 * Resolution[p])}

\* The values of a window: 0 and the upper edges of the last two rows
WindowValues(p) ==
  IF p \in Pollutants
    THEN {0, TopEdge(p),
          10 * BreakpointLiterals[p][Len(BreakpointLiterals[p]) - 1][2]}
    ELSE {0, 10}

Windows(p) ==
  UNION {[1..n -> WindowValues(p)] : n \in 0..MaxWindow}

\* The averages given to compare_aqi: None, 0 and the top edge
Averages(p) ==
  IF p \in Pollutants THEN {<<>>, <<0>>, <<TopEdge(p)>>} ELSE {<<>>, <<0>>}

NoResult == [tag |-> "none"]

NoRow == [c \in {} |-> 0]

\* No call of the AQI engine is under way
AqiIdle ==
  /\ fn = "none"
  /\ pollutant = "pm25"
  /\ concentration = 0
  /\ pm_last_12h = <<>>
  /\ pm_24h_avg = <<>>
  /\ pc = "idle"
  /\ w = <<>>
  /\ nowcast_concentration = <<>>
  /\ result = NoResult

\* The script's variables before a run
ScriptStart ==
  /\ features_df = <<>>
  /\ latest_row = NoRow
  /\ seed = NoRow
  /\ current = NoRow
  /\ step = 0
  /\ X = NoRow
  /\ predictions = <<>>
  /\ reads = 0
  /\ error = ""
  /\ forecast_df = <<>>

\* No dashboard, an empty store
ForecastIdle ==
  /\ store = <<>>
  /\ model = [kind |-> "constant", schema |-> "all", fail_at |-> HOURS_AHEAD]
  /\ cache = <<>>
  /\ runs = 0
  /\ dpc = "idle"
  /\ ScriptStart

AqiInit ==
  /\ pollutant \in Pollutants \cup Unsupported
  /\ fn \in {"calculate_standard_aqi", "calculate_nowcast", "compare_aqi"}
  /\ concentration \in
       IF fn = "calculate_standard_aqi"
         THEN Concentrations(pollutant) \cup Negatives(pollutant)
         ELSE {0}
  /\ pm_last_12h \in
       IF fn = "calculate_standard_aqi" THEN {<<>>} ELSE Windows(pollutant)
  /\ pm_24h_avg \in IF fn = "compare_aqi" THEN Averages(pollutant) ELSE {<<>>}
  /\ pc = "call"
  /\ w = <<>>
  /\ nowcast_concentration = <<>>
  /\ result = NoResult
  /\ ForecastIdle

\* result = calculate_standard_aqi(concentration, pollutant)
StandardAqi ==
  /\ pc = "call"
  /\ fn = "calculate_standard_aqi"
  /\ result' = calculate_standard_aqi(Float(concentration, pollutant), pollutant)
  /\ pc' = "done"
  /\ UNCHANGED <<fn, pollutant, concentration, pm_last_12h, pm_24h_avg, w,
                 nowcast_concentration>>
  /\ UNCHANGED forecastVars

\* result = calculate_nowcast(pm_last_12h, pollutant)
Nowcast ==
  /\ pc = "call"
  /\ fn = "calculate_nowcast"
  /\ \E run \in {NowcastRun(Floats(pm_last_12h, pollutant), pollutant)} :
       /\ result' = run.result
       /\ w' = run.w
       /\ nowcast_concentration' = run.nowcast_concentration
  /\ pc' = "done"
  /\ UNCHANGED <<fn, pollutant, concentration, pm_last_12h, pm_24h_avg>>
  /\ UNCHANGED forecastVars

\* result = compare_aqi(pm_last_12h, pm_24h_avg, pollutant)
Compare ==
  /\ pc = "call"
  /\ fn = "compare_aqi"
  /\ result' =
       compare_aqi(Floats(pm_last_12h, pollutant),
                   IF pm_24h_avg = <<>> THEN <<>>
                   ELSE <<Float(pm_24h_avg[1], pollutant)>>,
                   pollutant)
  /\ pc' = "done"
  /\ UNCHANGED <<fn, pollutant, concentration, pm_last_12h, pm_24h_avg, w,
                 nowcast_concentration>>
  /\ UNCHANGED forecastVars

AqiNext == StandardAqi \/ Nowcast \/ Compare

AqiSpec == AqiInit /\ [][AqiNext]_vars

(***************************************************************************)
(* The dashboard and the feature store                                     *)
(***************************************************************************)
\* The most rows the store comes to hold
MaxRows == 2

\* The most reruns of the dashboard script
MaxRuns == 1

\* The hours of the first row of a store: Friday 2024-01-05 22:00, so that
\* the forecast crosses a weekend, and Wednesday 2024-01-31 22:00, so that it
\* crosses a month's end
SeedTimes == {4 * 24 + 22, 30 * 24 + 22}

ForecastInit ==
  /\ AqiIdle
  /\ model \in [kind : {"constant", "trend"}, schema : DOMAIN LagColumns,
                fail_at : {2, HOURS_AHEAD}]
  /\ store \in {<<>>} \cup {<<FeatureRow(t, model.schema)>> : t \in SeedTimes}
  /\ cache = <<>>
  /\ runs = 0
  /\ dpc = "start"
  /\ ScriptStart

\* run_hourly_pipeline: upload_features inserts the row of a new hour, the
\* hour after the latest one or, on a backfill, the hour before the earliest
Ingest ==
  /\ Len(store) < MaxRows
  /\ \E t \in IF store = <<>> THEN SeedTimes
              ELSE {sort_values(store)[Len(store)].timestamp + 1,
                    sort_values(store)[1].timestamp - 1} :
       store' = Append(store, FeatureRow(t, model.schema))
  /\ UNCHANGED <<model, cache, runs, dpc, features_df, latest_row, seed,
                 current, step, X, predictions, reads, error, forecast_df>>
  /\ UNCHANGED aqiVars

\* The ttl of st.cache_data lapses
CacheExpire ==
  /\ cache # <<>>
  /\ cache' = <<>>
  /\ UNCHANGED <<store, model, runs, dpc, features_df, latest_row, seed,
                 current, step, X, predictions, reads, error, forecast_df>>
  /\ UNCHANGED aqiVars

\* app.py up to latest_row: load_features() answers from the cache when it
\* holds a value, and from the store otherwise; None stops the script
LoadData ==
  /\ dpc = "start"
  /\ features_df' = IF cache # <<>> THEN cache[1] ELSE sort_values(store)
  /\ cache' = <<features_df'>>
  /\ IF features_df' = <<>>
       THEN dpc' = "stopped" /\ latest_row' = latest_row
       ELSE dpc' = "forecast" /\ latest_row' = features_df'[Len(features_df')]
  /\ UNCHANGED <<store, model, runs, seed, current, step, X, predictions,
                 reads, error, forecast_df>>
  /\ UNCHANGED aqiVars

\* forecast_3_days up to the loop: load_latest_features() reads the store
ForecastLoad ==
  /\ dpc = "forecast"
  /\ reads' = reads + 1
  /\ IF store = <<>>
       THEN /\ dpc' = "crashed"
            /\ error' = "ValueError"
            /\ UNCHANGED <<seed, current, step, predictions>>
       ELSE /\ dpc' = "loop"
            /\ seed' = sort_values(store)[Len(store)]
            /\ current' = seed'
            /\ step' = 0
            /\ predictions' = <<>>
            /\ error' = error
  /\ UNCHANGED <<store, model, cache, runs, features_df, latest_row, X,
                 forecast_df>>
  /\ UNCHANGED aqiVars

\* One iteration of the loop; an exception of predict ends the script
ForecastStep ==
  /\ dpc = "loop"
  /\ step < HOURS_AHEAD
  /\ X' = Drop(current, NotFeatures)
  /\ \E pred \in {predict(model, X', step)} :
       IF pred.tag = "raise"
         THEN /\ dpc' = "crashed"
              /\ error' = pred.exc
              /\ UNCHANGED <<current, step, predictions>>
         ELSE /\ predictions' = Append(predictions, pred.value)
              /\ current' = Advance(current, pred.value)
              /\ step' = step + 1
              /\ UNCHANGED <<dpc, error>>
  /\ UNCHANGED <<store, model, cache, runs, features_df, latest_row, seed,
                 reads, forecast_df>>
  /\ UNCHANGED aqiVars

\* The loop is over: forecast_3_days returns predictions and app.py builds
\* forecast_df from them
ForecastReturn ==
  /\ dpc = "loop"
  /\ step = HOURS_AHEAD
  /\ forecast_df' = ForecastFrame(latest_row, predictions)
  /\ dpc' = "done"
  /\ UNCHANGED <<store, model, cache, runs, features_df, latest_row, seed,
                 current, step, X, predictions, reads, error>>
  /\ UNCHANGED aqiVars

\* Streamlit runs the script again, from its first line
Rerun ==
  /\ dpc \in {"done", "stopped", "crashed"}
  /\ runs < MaxRuns
  /\ runs' = runs + 1
  /\ dpc' = "start"
  /\ features_df' = <<>>
  /\ latest_row' = NoRow
  /\ seed' = NoRow
  /\ current' = NoRow
  /\ step' = 0
  /\ X' = NoRow
  /\ predictions' = <<>>
  /\ reads' = 0
  /\ error' = ""
  /\ forecast_df' = <<>>
  /\ UNCHANGED <<store, model, cache>>
  /\ UNCHANGED aqiVars

ForecastNext ==
  \/ Ingest
  \/ CacheExpire
  \/ LoadData
  \/ ForecastLoad
  \/ ForecastStep
  \/ ForecastReturn
  \/ Rerun

ForecastSpec == ForecastInit /\ [][ForecastNext]_vars

(***************************************************************************)
(* Properties of the AQI engine, over AqiSpec                              *)
(***************************************************************************)
\* A call of calculate_standard_aqi on a supported pollutant has returned
StandardDone ==
  pc = "done" /\ fn = "calculate_standard_aqi" /\ pollutant \in Pollutants

\* A call of calculate_nowcast on a supported pollutant has returned
NowcastDone ==
  pc = "done" /\ fn = "calculate_nowcast" /\ pollutant \in Pollutants

\* The window holds one value throughout
ConstantWindow ==
  pm_last_12h # <<>> /\ \A i \in 1..Len(pm_last_12h) : pm_last_12h[i] = pm_last_12h[1]

\* C1: the index is monotonically non-decreasing in the concentration: no
\* concentration c1 below the one of the call, a value in a gap between two
\* rows included, has a greater index than the call returned.
C1_Monotone ==
  StandardDone =>
    \A c1 \in Concentrations(pollutant) :
      c1 <= concentration =>
        calculate_standard_aqi(Float(c1, pollutant), pollutant).value
          <= result.value

\* C2: every concentration from 0 to the highest bphi of the table lies in the
\* range of exactly one row.
C2_ExactlyOneRow ==
  (StandardDone /\ 0 <= concentration /\ concentration <= TopEdge(pollutant)) =>
    Cardinality({i \in 1..Len(breakpoints[pollutant]) :
                   InRange(breakpoints[pollutant][i],
                           Float(concentration, pollutant))}) = 1

\* C3: at the lower edge bplo of a row the index is the row's ilo and at the
\* upper edge bphi it is the row's ihi; so pm25 12.0 gives 50 and 12.1 gives 51.
C3_EdgesGiveRowIndices ==
  StandardDone =>
    \A i \in 1..Len(BreakpointLiterals[pollutant]) :
      /\ concentration = 10 * BreakpointLiterals[pollutant][i][1]
           => result = Return(BreakpointLiterals[pollutant][i][3])
      /\ concentration = 10 * BreakpointLiterals[pollutant][i][2]
           => result = Return(BreakpointLiterals[pollutant][i][4])

C3_Witness ==
  /\ StandardDone
  /\ pollutant = "pm25"
  /\ concentration = 1210
  /\ result = Return(51)

\* C4: a concentration above the last row's bphi gives the index 500, never an
\* error.
C4_AboveTopGives500 ==
  (StandardDone /\ concentration > TopEdge(pollutant)) => result = Return(500)

C4_Witness ==
  /\ StandardDone
  /\ pollutant = "pm25"
  /\ concentration = 1000 * Resolution.pm25
  /\ result = Return(500)

\* C5: calculate_standard_aqi of a concentration >= 0 and calculate_nowcast of
\* a non-empty window of concentrations >= 0 return an integer from 0 to 500.
C5_IndexInRange ==
  (StandardDone \/ (NowcastDone /\ pm_last_12h # <<>>)) =>
    result.tag = "return" /\ result.value \in 0..500

C5_Witness ==
  /\ NowcastDone
  /\ Len(pm_last_12h) = MaxWindow
  /\ ~ConstantWindow
  /\ result.tag = "return"
  /\ result.value \in 1..499

C7_EmptyWindowRaises ==
  (pc = "done" /\ fn = "calculate_nowcast" /\ pm_last_12h = <<>>)
    => result = Raise("EmptyWindow")

\* C8: on a non-empty window of one value v >= 0 throughout, calculate_nowcast
\* has w = 1.0 and the smoothed concentration v exactly, and returns
\* calculate_standard_aqi(v); for v = 0 it returns 0.
C8_ConstantWindow ==
  (NowcastDone /\ ConstantWindow) =>
    /\ w = <<One>>
    /\ nowcast_concentration = <<Float(pm_last_12h[1], pollutant)>>
    /\ result = calculate_standard_aqi(Float(pm_last_12h[1], pollutant),
                                       pollutant)
    /\ pm_last_12h[1] = 0 => result = Return(0)

C13_LatestWeighsMost ==
  (NowcastDone /\ pm_last_12h # <<>>) =>
    /\ nowcast_concentration =
         <<FDiv(PySum([t \in 1..Len(pm_last_12h) |->
                        FMul(FPow(w[1], t - 1),
                             Float(pm_last_12h[Len(pm_last_12h) + 1 - t],
                                   pollutant))]),
                PySum([t \in 1..Len(pm_last_12h) |-> FPow(w[1], t - 1)]))>>
    /\ FPow(w[1], 0) = One
    /\ \A t \in 1..Len(pm_last_12h) : FLe(FPow(w[1], t - 1), One)

C13_Witness ==
  /\ NowcastDone
  /\ Len(pm_last_12h) = MaxWindow
  /\ 0 < pm_last_12h[1]
  /\ pm_last_12h[1] < pm_last_12h[MaxWindow]
  /\ FLt(w[1], One)
  /\ FLt(Float(pm_last_12h[1], pollutant), nowcast_concentration[1])

\* C18: on a non-empty window of concentrations >= 0 the weight w is in
\* [0.5, 1.0] and the smoothed concentration given to the index conversion is
\* in [cMin, cMax] of the window.
C18_SmoothedWithinWindow ==
  (NowcastDone /\ pm_last_12h # <<>>) =>
    /\ FLe(Half, w[1])
    /\ FLe(w[1], One)
    /\ FLe(FMin(Floats(pm_last_12h, pollutant)), nowcast_concentration[1])
    /\ FLe(nowcast_concentration[1], FMax(Floats(pm_last_12h, pollutant)))

\* C19: for every supported pollutant a concentration below zero is in the
\* range of no row and calculate_standard_aqi returns 500 for it, not 0 and
\* not an error; so the aqi column of the forecast frame, which is
\* calculate_standard_aqi of pm25, is 500 for every prediction below zero.
C19_NegativeGives500 ==
  /\ (StandardDone /\ concentration < 0) =>
        /\ \A i \in 1..Len(breakpoints[pollutant]) :
             ~InRange(breakpoints[pollutant][i], Float(concentration, pollutant))
        /\ result = Return(500)
  /\ (StandardDone /\ concentration < 0 /\ pollutant = "pm25") =>
        \A x \in DOMAIN PredictionAqi : x < 0 => PredictionAqi[x] = 500

C19_Witness ==
  /\ StandardDone
  /\ pollutant = "o3"
  /\ concentration = -1
  /\ result = Return(500)

(***************************************************************************)
(* Properties of the forecast, over ForecastSpec                           *)
(***************************************************************************)
\* C10: the forecast frame of the dashboard holds HOURS_AHEAD entries, and
\* entry i (from 0) is paired with the timestamp of the seed row of the
\* forecast loop plus i + 1 hours, also when the store got rows between the
\* dashboard's load of the features and the forecast's load of the seed row.
C10_SeriesTimestamps ==
  dpc = "done" =>
    /\ Len(forecast_df) = HOURS_AHEAD
    /\ \A i \in 1..Len(forecast_df) :
         forecast_df[i].timestamp = seed.timestamp + i

\* C11: a forecast step on a row with the lags a (1h), b (3h), c (6h) that
\* predicts p leaves the lags p (1h), a (3h), b (6h): the old 6h lag is dropped.
C11_LagsShift ==
  [][(/\ dpc = "loop"
      /\ step' = step + 1
      /\ LagColumns.all \subseteq DOMAIN current) =>
       /\ current'.pm25_lag_1h = predictions'[step']
       /\ current'.pm25_lag_3h = current.pm25_lag_1h
       /\ current'.pm25_lag_6h = current.pm25_lag_3h]_vars

\* The seed (10, 20, 30) under the model that predicts 5, after one step
C11_Witness ==
  /\ dpc = "loop"
  /\ step = 1
  /\ model.kind = "constant"
  /\ <<seed.pm25_lag_1h, seed.pm25_lag_3h, seed.pm25_lag_6h>> = <<10, 20, 30>>
  /\ <<current.pm25_lag_1h, current.pm25_lag_3h, current.pm25_lag_6h>>
       = <<5, 10, 20>>

\* The loop of forecast_3_days was ended by an exception of predict
StepFailed == dpc = "crashed" /\ DOMAIN seed # {}

\* C12: when predict raises at step k, the forecast fails with the error
\* ForecastStepFailed of step k; no later step runs and no series of the k
\* earlier predictions reaches the caller.
C12_StepFailureSurfaced ==
  StepFailed =>
    /\ error = "ForecastStepFailed"
    /\ Len(predictions) = step
    /\ forecast_df = <<>>

\* C14: a forecast step moves the timestamp on by exactly one hour and leaves
\* hour, day, month and day_of_week those of the new timestamp, is_rush_hour
\* 1 exactly for the hours 7, 8, 9, 17, 18, 19 and is_weekend 1 exactly for
\* day_of_week >= 5, which is what transform_features derives for that hour.
C14_CalendarFollowsTimestamp ==
  [][(dpc = "loop" /\ step' = step + 1) =>
       /\ current'.timestamp = current.timestamp + 1
       /\ \A c \in DOMAIN TimeFeatures(current'.timestamp) :
            current'[c] = TimeFeatures(current'.timestamp)[c]
       /\ current'.is_rush_hour = 1 <=> current'.hour \in {7, 8, 9, 17, 18, 19}
       /\ current'.is_weekend = 1 <=> current'.day_of_week >= 5
       /\ current'.is_rush_hour \in {0, 1}
       /\ current'.is_weekend \in {0, 1}]_vars

\* A step has reached a rush hour of a weekend
C14_Witness ==
  /\ dpc = "loop"
  /\ step > 0
  /\ current.timestamp = seed.timestamp + step
  /\ current.is_weekend = 1
  /\ current.is_rush_hour = 1

\* C15: at every step k >= 1 the row given to the model has pm25 and the 1h
\* lag equal to the prediction of step k - 1; the forecast reads the store
\* once, before step 0, and a row the store gets during the loop changes
\* neither the row of the loop nor the one given to the model.
C15_FeedsOwnOutput ==
  [][/\ (dpc = "loop" /\ step >= 1 /\ X' # X) =>
          /\ X'.pm25 = predictions[step]
          /\ X'.pm25_lag_1h = predictions[step]
     /\ dpc = "loop" => reads = 1 /\ reads' = reads
     /\ (dpc = "loop" /\ store' # store) => current' = current /\ X' = X]_vars

\* The store got a row while the loop ran, and the loop went on from its own
\* predictions
C15_Witness ==
  /\ dpc = "loop"
  /\ step > 2
  /\ model.kind = "trend"
  /\ Len(store) = MaxRows
  /\ seed.timestamp < sort_values(store)[Len(store)].timestamp
  /\ X.pm25 = predictions[step - 1]
  /\ X.pm25 # seed.pm25

\* The columns a forecast step may write
StepColumns ==
  {"timestamp", "pm25", "pm25_lag_1h", "pm25_lag_3h", "pm25_lag_6h", "hour",
   "day", "month", "day_of_week", "is_weekend", "is_rush_hour"}

\* C16: a forecast step changes only timestamp, pm25, the three pm25 lags,
\* hour, day, month, day_of_week, is_weekend and is_rush_hour; every other
\* column of the row keeps the value of the seed row through all the steps,
\* and no other column appears or disappears.
C16_OtherColumnsKeepSeed ==
  /\ [](DOMAIN seed # {} =>
          /\ DOMAIN current \ StepColumns = DOMAIN seed \ StepColumns
          /\ \A c \in DOMAIN seed \ StepColumns : current[c] = seed[c])
  /\ [][step' = step + 1 =>
          /\ DOMAIN current' \ StepColumns = DOMAIN current \ StepColumns
          /\ \A c \in DOMAIN current \ StepColumns : current'[c] = current[c]]_vars

\* All the steps have run; pm25 moved away from the seed, the rolling mean
\* and the pm10 lag did not
C16_Witness ==
  /\ dpc = "done"
  /\ step = HOURS_AHEAD
  /\ current.pm25 # seed.pm25
  /\ current.pm25_rolling_3h = seed.pm25_rolling_3h
  /\ current.pm10_lag_1h = seed.pm10_lag_1h
  /\ DOMAIN seed \ StepColumns # {}

\* C17: the row the model is called with has exactly the columns the model
\* expects, at every step; a row with other columns, such as the one that
\* follows a seed without pm25_lag_1h once the loop has added the lag, is
\* never given to predict.
C17_OnlyExpectedColumns ==
  DOMAIN X # {} => DOMAIN X = FittedColumns(model.schema)
====
